---- MODULE Spec2Model ----
(***************************************************************************)
(* Model of src/loader.py: the normalisation pipeline that turns a nested  *)
(* faction document into a flat table (load_army_data_to_dataframes), the  *)
(* identifier resolver (id_to_name) and the batch loader                   *)
(* (load_all_downloaded_files).                                            *)
(*                                                                         *)
(* Encoding of Python / pandas values:                                     *)
(*   None                  [kind |-> "None"]                               *)
(*   NaN (numpy.nan)       [kind |-> "NaN"]                                *)
(*   a list                [kind |-> "list", items |-> <<...>>]            *)
(*   a dict                [kind |-> "dict", ...]; a key the dict lacks    *)
(*                         holds None (that is what d.get returns), except *)
(*                         for references, whose present keys are listed   *)
(*                         in `keys` because id['id'] raises on a missing  *)
(*                         key                                             *)
(*   a DataFrame           a sequence of rows; a row is a function from    *)
(*                         column names to cell values                     *)
(*   a raised exception    [err |-> "<ExceptionName>", val |-> ...]        *)
(***************************************************************************)
EXTENDS Integers, Sequences, FiniteSets, TLC

VARIABLES
    pc,            \* position in load_all_downloaded_files / load_army_data_to_dataframes
    err,           \* name of the exception that propagated, "None" when none did
    raisedAt,      \* the pc at which that exception was raised
    files,         \* stored documents, in os.listdir order: <<[key, doc]>>
    loaded_jsons,  \* dict key -> parsed document (insertion ordered)
    metadata_df,   \* the four metadata catalogs, or None before they are built
    armies,        \* result dict under construction: <<[key, table]>>
    returned,      \* what load_all_downloaded_files returned
    printed,       \* lines written by print()
    army_key,      \* loop variable of load_all_downloaded_files
    army_data,     \* argument of load_army_data_to_dataframes
    army_df,       \* the table load_army_data_to_dataframes works on
    id_list,       \* arguments and result of a direct call of id_to_name
    lookup,
    extras_lookup,
    full_names

vars == <<pc, err, raisedAt, files, loaded_jsons, metadata_df, armies, returned,
          printed, army_key, army_data, army_df, id_list, lookup, extras_lookup,
          full_names>>

batchVars == <<files, loaded_jsons, metadata_df, armies, returned, printed, army_key>>
callVars == <<id_list, lookup, extras_lookup, full_names>>

-----------------------------------------------------------------------------
(* Python values *)

NoneVal == [kind |-> "None"]
NaN == [kind |-> "NaN"]
List(items) == [kind |-> "list", items |-> items]

Ok(v) == [err |-> "None", val |-> v]
Raise(e) == [err |-> e, val |-> NoneVal]

Range(s) == {s[k] : k \in 1..Len(s)}

RECURSIVE Join(_)
Join(strs) == IF Len(strs) = 0 THEN "" ELSE Head(strs) \o Join(Tail(strs))

RECURSIVE SumSeq(_)
SumSeq(ns) == IF Len(ns) = 0 THEN 0 ELSE Head(ns) + SumSeq(Tail(ns))

-----------------------------------------------------------------------------
(* References and id_to_name *)

\* A reference dict {id, extra}; keys lists the keys the dict actually has.
Ref(keys, id, extra) == [kind |-> "dict", keys |-> keys, id |-> id, extra |-> extra]
RefId(n) == Ref({"id"}, n, <<>>)
RefExtra(n, extra) == Ref({"id", "extra"}, n, extra)
EmptyDict == Ref({}, 0, <<>>)

\* `if id:` -- the truth value of the list element itself: None and {} are falsy.
\* (variant: skips the references whose 'id' is missing or falsy instead)
TruthyId(id) == id.kind = "dict" /\ "id" \in id.keys /\ id.id # 0
Truthy(id) == id.kind = "dict" /\ id.keys # {}

\* lookup[lookup['id'] == n]['name'].tolist(): names of the matching rows, catalog order.
MatchingNames(catalog, n) ==
    LET rows == SelectSeq(catalog, LAMBDA r : r.id = n)
    IN  [k \in 1..Len(rows) |-> rows[k].name]

\* (variant: the suffix names in the order of the reference's extra list)
RECURSIVE ExtraNamesInListOrder(_, _)
ExtraNamesInListOrder(extra, extras) ==
    IF Len(extra) = 0 THEN <<>>
    ELSE LET rows == SelectSeq(extras, LAMBDA r : r.id = Head(extra))
         IN  [k \in 1..Len(rows) |-> rows[k].name] \o
             ExtraNamesInListOrder(Tail(extra), extras)

\* extras_lookup[extras_lookup['id'].isin(extra)]['name'].tolist()
ExtraNames(extra, extras) ==
    LET rows == SelectSeq(extras, LAMBDA r : r.id \in Range(extra))
    IN  [k \in 1..Len(rows) |-> rows[k].name]

\* list(set(names))[0]: the iteration order of a set of strings depends on the
\* process's string hash seed, so which of several distinct names comes first is
\* not determined; hashseed 0 yields the first catalog match, any other the last.
FirstOfSet(names, hashseed) == IF hashseed = 0 THEN names[1] ELSE names[Len(names)]

\* One reference that passed `if id:` (lines 224-230).
ResolveOne(id, catalog, extras, hashseed) ==
    IF "id" \notin id.keys THEN Raise("KeyError")
    ELSE LET name == MatchingNames(catalog, id.id)
             ex == IF "extra" \in id.keys /\ Len(id.extra) > 0
                   THEN LET found == ExtraNames(id.extra, extras)
                        IN  [k \in 1..Len(found) |-> "(" \o found[k] \o ")"]
                   ELSE <<>>
         IN  IF Len(name) = 0 THEN Raise("IndexError")
             ELSE Ok(FirstOfSet(name, hashseed) \o Join(ex))

RECURSIVE id_to_name_loop(_, _, _, _, _)
id_to_name_loop(items, catalog, extras, hashseed, acc) ==
    IF Len(items) = 0 THEN Ok(acc)
    ELSE LET id == Head(items) IN
         IF ~Truthy(id)
         THEN id_to_name_loop(Tail(items), catalog, extras, hashseed, acc)
         ELSE LET one == ResolveOne(id, catalog, extras, hashseed) IN
              IF one.err # "None" THEN Raise(one.err)
              ELSE id_to_name_loop(Tail(items), catalog, extras, hashseed,
                                   Append(acc, one.val))

\* id_to_name(id_list, lookup, extras_lookup); iterating None raises TypeError.
id_to_name(ids, catalog, extras, hashseed) ==
    IF ids.kind # "list" THEN Raise("TypeError")
    ELSE id_to_name_loop(ids.items, catalog, extras, hashseed, <<>>)

-----------------------------------------------------------------------------
(* DataFrame helpers *)

Bind(r, F(_)) == IF r.err # "None" THEN r ELSE F(r.val)

HasColumn(df, c) == Len(df) > 0 /\ c \in DOMAIN df[1]

SetCol(row, c, v) == [x \in DOMAIN row \cup {c} |-> IF x = c THEN v ELSE row[x]]

\* DataFrame.rename(columns={old: new}); a label that is not a column is ignored.
RenameRow(row, old, new) ==
    IF old \notin DOMAIN row THEN row
    ELSE [x \in (DOMAIN row \ {old}) \cup {new} |-> IF x = new THEN row[old] ELSE row[x]]
Rename(df, old, new) == [k \in 1..Len(df) |-> RenameRow(df[k], old, new)]

RECURSIVE ConcatAll(_)
ConcatAll(seqs) == IF Len(seqs) = 0 THEN <<>> ELSE Head(seqs) \o ConcatAll(Tail(seqs))

\* DataFrame.explode(column, ignore_index=True): one row per element of a list
\* cell; an empty list becomes a single row holding NaN; a cell that is not a
\* list (None, NaN) is kept as it is.
ExplodeRow(row, c) ==
    IF row[c].kind = "list" /\ Len(row[c].items) > 0
    THEN [k \in 1..Len(row[c].items) |-> SetCol(row, c, row[c].items[k])]
    ELSE IF row[c].kind = "list" THEN <<SetCol(row, c, NaN)>>
    ELSE <<row>>
Explode(df, c) ==
    IF ~HasColumn(df, c) THEN Raise("KeyError")
    ELSE Ok(ConcatAll([k \in 1..Len(df) |-> ExplodeRow(df[k], c)]))

\* DataFrame.apply(f, axis=1): f on every row in order; the first exception propagates.
ApplyRows(df, F(_)) ==
    LET rs == [k \in 1..Len(df) |-> F(df[k])]
        bad == {k \in 1..Len(df) : rs[k].err # "None"}
    IN  IF bad = {} THEN Ok([k \in 1..Len(df) |-> rs[k].val])
        ELSE Raise(rs[CHOOSE k \in bad : \A j \in bad : k <= j].err)

\* source_df[new_column] = [d.get(key) for d in source_df[column]]
add_column_from_dict_value(source_df, column, key, new_column) ==
    IF \E k \in 1..Len(source_df) : source_df[k][column].kind # "dict"
    THEN Raise("AttributeError")
    ELSE Ok([k \in 1..Len(source_df) |->
                SetCol(source_df[k], new_column, source_df[k][column][key])])

RECURSIVE AddColumns(_, _, _)
AddColumns(df, column, keys) ==
    IF Len(keys) = 0 THEN Ok(df)
    ELSE Bind(add_column_from_dict_value(df, column, Head(keys), Head(keys)),
              LAMBDA d : AddColumns(d, column, Tail(keys)))

-----------------------------------------------------------------------------
(* load_army_data_to_dataframes, stage by stage *)

\* The keys of a vendor unit record that line 341 drops.
UnitBookkeeping ==
    {"id", "idArmy", "canonical", "isc", "iscAbbr", "options", "slug", "filters", "notes"}

\* DataFramePlus(army_data['units']): the columns are the union of the units' keys.
DataFramePlus(units) ==
    LET cols == UNION {units[k].keys : k \in 1..Len(units)}
    IN  [k \in 1..Len(units) |->
            [c \in cols |-> IF c \in units[k].keys
                            THEN (IF c = "name" THEN units[k].name
                                  ELSE IF c = "profileGroups" THEN units[k].profileGroups
                                  ELSE [kind |-> "scalar"])
                            ELSE NaN]]

\* lines 302-315
GroupStage(data) ==
    Bind(Explode(DataFramePlus(data.units), "profileGroups"), LAMBDA d1 :
    Bind(add_column_from_dict_value(d1, "profileGroups", "options", "profileGroupOptions"),
         LAMBDA d2 :
    add_column_from_dict_value(d2, "profileGroups", "profiles", "profileGroupProfiles")))

\* lines 318-327
OptionStage(df) ==
    Bind(Explode(df, "profileGroupOptions"), LAMBDA d1 :
    Bind(add_column_from_dict_value(d1, "profileGroupOptions", "points", "points"), LAMBDA d2 :
    Bind(add_column_from_dict_value(d2, "profileGroupOptions", "swc", "swc"), LAMBDA d3 :
    Bind(add_column_from_dict_value(d3, "profileGroupOptions", "skills", "option_skills"), LAMBDA d4 :
    Bind(add_column_from_dict_value(d4, "profileGroupOptions", "orders", "orders"), LAMBDA d5 :
    Bind(add_column_from_dict_value(d5, "profileGroupOptions", "peripheral", "option_peripheral"), LAMBDA d6 :
    Bind(add_column_from_dict_value(d6, "profileGroupOptions", "weapons", "option_weapons"), LAMBDA d7 :
    add_column_from_dict_value(d7, "profileGroupOptions", "equip", "option_equipment"))))))))

ProfileKeys ==
    <<"skills", "arm", "ava", "bs", "bts", "cc", "move", "ph", "s", "str", "w", "wip",
      "equip", "weapons", "peripheral", "type", "chars">>

\* (variant: every row explodes the profile list of the table's first row)
ProfileStageFirstRow(df) ==
    Bind(Explode([k \in 1..Len(df) |->
                     SetCol(df[k], "profileGroupProfiles", df[1].profileGroupProfiles)],
                 "profileGroupProfiles"), LAMBDA d1 :
    Bind(add_column_from_dict_value(d1, "profileGroupProfiles", "skills", "skills"), LAMBDA d2 :
    AddColumns(d2, "profileGroupProfiles", ProfileKeys)))

\* lines 328-331
ProfileStage(df) ==
    Bind(Explode(df, "profileGroupProfiles"), LAMBDA d1 :
    Bind(add_column_from_dict_value(d1, "profileGroupProfiles", "skills", "skills"), LAMBDA d2 :
    AddColumns(d2, "profileGroupProfiles", ProfileKeys)))

\* (variant: the option's names first)
ConvertIdsSwapped(df, base, option, out, catalog, extras, hashseed) ==
    LET d == Rename(Rename(df, base, base \o "_id"), option, option \o "_id")
    IN  Bind(ApplyRows(d, LAMBDA row : id_to_name(row[base \o "_id"], catalog, extras, hashseed)),
             LAMBDA a :
        Bind(ApplyRows(d, LAMBDA row : id_to_name(row[option \o "_id"], catalog, extras, hashseed)),
             LAMBDA b :
        Ok([k \in 1..Len(d) |-> SetCol(d[k], out, b[k] \o a[k])])))

\* The three convert_*_ids functions share one shape: rename the two id columns,
\* resolve the profile's list on every row, resolve the option's list on every
\* row, and add the two Series of lists element by element.
ConvertIds(df, base, option, out, catalog, extras, hashseed) ==
    LET d == Rename(Rename(df, base, base \o "_id"), option, option \o "_id")
    IN  Bind(ApplyRows(d, LAMBDA row : id_to_name(row[base \o "_id"], catalog, extras, hashseed)),
             LAMBDA a :
        Bind(ApplyRows(d, LAMBDA row : id_to_name(row[option \o "_id"], catalog, extras, hashseed)),
             LAMBDA b :
        Ok([k \in 1..Len(d) |-> SetCol(d[k], out, a[k] \o b[k])])))

convert_skill_ids(df, skills_df, extras_df, hashseed) ==
    ConvertIds(df, "skills", "option_skills", "skills", skills_df, extras_df, hashseed)
convert_weapon_ids(df, weapons_df, extras_df, hashseed) ==
    ConvertIds(df, "weapons", "option_weapons", "weapons", weapons_df, extras_df, hashseed)
convert_equipment_ids(df, equipment_df, extras_df, hashseed) ==
    ConvertIds(df, "equip", "option_equipment", "equipment", equipment_df, extras_df, hashseed)

\* type_id_to_name (lines 267-275)
type_id_to_name == (1 :> "LI") @@ (2 :> "MI") @@ (3 :> "HI") @@ (4 :> "TAG") @@
                   (5 :> "REM") @@ (6 :> "SK") @@ (7 :> "WB")

\* type_id_to_name[row['type_id']]
TypeLabel(type_id) ==
    IF type_id \in DOMAIN type_id_to_name THEN Ok(type_id_to_name[type_id])
    ELSE Raise("KeyError")

convert_type_ids(df) ==
    LET d == Rename(df, "type", "type_id")
    IN  Bind(ApplyRows(d, LAMBDA row : TypeLabel(row.type_id)), LAMBDA t :
        Ok([k \in 1..Len(d) |-> SetCol(d[k], "type", t[k])]))

\* (variant: sums every entry, whatever its type)
get_orders_of_type_any(orders_list, order_type) ==
    IF orders_list.kind # "list" THEN Raise("TypeError")
    ELSE Ok(SumSeq([k \in 1..Len(orders_list.items) |-> orders_list.items[k].total]))

\* sum([order['total'] for order in orders_list if order['type'] == order_type])
get_orders_of_type(orders_list, order_type) ==
    IF orders_list.kind # "list" THEN Raise("TypeError")
    ELSE LET sel == SelectSeq(orders_list.items, LAMBDA order : order.type = order_type)
         IN  Ok(SumSeq([k \in 1..Len(sel) |-> sel[k].total]))

OrderTypes == <<"REGULAR", "IRREGULAR", "IMPETUOUS", "LIEUTENANT">>
OrderColumns == <<"Regular Orders", "Irregular Orders", "Impetuous Orders", "Lieutenant Orders">>

RECURSIVE AddOrderColumnsFrom(_, _, _)
AddOrderColumnsFrom(df, cols, i) ==
    IF i > Len(OrderTypes) THEN Ok([k \in 1..Len(df) |->
            [c \in DOMAIN df[k] \cup Range(OrderColumns) |->
                IF c \in Range(OrderColumns)
                THEN cols[CHOOSE j \in 1..Len(OrderColumns) : OrderColumns[j] = c][k]
                ELSE df[k][c]]])
    ELSE Bind(ApplyRows(df, LAMBDA row : get_orders_of_type(row.orders, OrderTypes[i])),
              LAMBDA col : AddOrderColumnsFrom(df, Append(cols, col), i + 1))

\* lines 289-297: the four Series are computed first, then assigned.
add_order_columns(df) == AddOrderColumnsFrom(df, <<>>, 1)

\* DataFrame.drop(labels, axis=1): a label that is not a column raises KeyError.
Dropped ==
    UnitBookkeeping \cup
    {"profileGroups", "profileGroupOptions", "profileGroupProfiles", "option_skills_id",
     "option_weapons_id", "skills_id", "weapons_id", "equip_id", "option_equipment_id",
     "option_peripheral", "peripheral"}

Drop(df, labels) ==
    IF \E c \in labels : ~HasColumn(df, c) THEN Raise("KeyError")
    ELSE Ok([k \in 1..Len(df) |-> [c \in DOMAIN df[k] \ labels |-> df[k][c]]])

\* df[col].astype('int32') on Python ints.
ToInt32(v) == IF v >= (0 - 2147483647) - 1 /\ v <= 2147483647 THEN Ok(v) ELSE Raise("OverflowError")

\* float(s) for the swc literals of the vendor data; the float is written as its repr.
SwcFloat ==
    ("0" :> "0.0") @@ ("0.5" :> "0.5") @@ ("1" :> "1.0") @@ ("1.5" :> "1.5") @@ ("2" :> "2.0")
ToFloat(s) == IF s \in DOMAIN SwcFloat THEN Ok(SwcFloat[s]) ELSE Raise("ValueError")

IntColumns == <<"arm", "w", "ava", "bs", "bts", "cc", "ph", "points", "wip">>

\* df[col].astype(type)
AsType(v, type) == IF type = "int32" THEN ToInt32(v) ELSE ToFloat(v)

RECURSIVE convert_columns_to_type(_, _, _)
convert_columns_to_type(df, columns, type) ==
    IF Len(columns) = 0 THEN Ok(df)
    ELSE Bind(ApplyRows(df, LAMBDA row : AsType(row[Head(columns)], type)), LAMBDA col :
         convert_columns_to_type([k \in 1..Len(df) |-> SetCol(df[k], Head(columns), col[k])],
                                 Tail(columns), type))

FinalColumns ==
    {"name", "type", "move", "cc", "bs", "ph", "wip", "arm", "bts", "w", "str", "s", "ava",
     "skills", "equipment", "weapons", "swc", "points"} \cup Range(OrderColumns)

\* lines 341-360
FinalStage(df) ==
    Bind(Drop(df, Dropped), LAMBDA d1 :
    LET d2 == SelectSeq(d1, LAMBDA row : row.name # "")
    IN  Bind(convert_columns_to_type(d2, IntColumns, "int32"), LAMBDA d3 :
        LET d4 == [k \in 1..Len(d3) |->
                      IF d3[k].swc = "-" THEN SetCol(d3[k], "swc", "0") ELSE d3[k]]
        IN  Bind(convert_columns_to_type(d4, <<"swc">>, "float"), LAMBDA d5 :
            Ok([k \in 1..Len(d5) |-> [c \in FinalColumns |-> d5[k][c]]]))))

-----------------------------------------------------------------------------
(* Metadata *)

\* pd.merge(weapons_df, ammunition_df_renamed, how='left') on ammunition_id: every
\* weapon row once per matching ammunition row, or once with NaN when none matches.
MergeAmmunition(weapon, ammunition_df) ==
    LET m == SelectSeq(ammunition_df, LAMBDA a : a.id = weapon.ammunition)
    IN  IF Len(m) = 0
        THEN <<[id |-> weapon.id, name |-> weapon.name,
                ammunition_id |-> weapon.ammunition, ammunition |-> NaN]>>
        ELSE [k \in 1..Len(m) |->
                [id |-> weapon.id, name |-> weapon.name,
                 ammunition_id |-> weapon.ammunition, ammunition |-> m[k].name]]

load_weapons_metadata_to_dataframe(weapons_metadata, ammunition_df) ==
    ConcatAll([k \in 1..Len(weapons_metadata) |->
                  MergeAmmunition(weapons_metadata[k], ammunition_df)])

load_metadata_to_dataframes(metadata) ==
    [kind |-> "dict",
     ammunition |-> metadata.ammunitions,
     skills |-> metadata.skills,
     weapons |-> load_weapons_metadata_to_dataframe(metadata.weapons, metadata.ammunitions),
     equipment |-> metadata.equips]

-----------------------------------------------------------------------------
(* Bounded input documents *)

MaxGroups == 2      \* profile groups of a faction document, over all its units
MaxOptions == 2     \* options of one profile group
MaxProfiles == 2    \* profiles of one profile group
MaxRefs == 3        \* length of a reference list passed to id_to_name directly
MaxRows == 2        \* rows of a table passed to convert_type_ids directly
MaxTypeCode == 9    \* largest type code tried
MaxOrders == 3      \* entries of an order list
MaxTotal == 2       \* largest 'total' of an order entry
MaxFactions == 2    \* faction documents in the storage folder

HashSeeds == {0, 1}

MetadataDoc ==
    [kind |-> "dict",
     skills |-> <<[id |-> 5, name |-> "Camouflage"], [id |-> 6, name |-> "Mimetism"],
                  [id |-> 6, name |-> "Mimetism (-3)"]>>,
     weapons |-> <<[id |-> 9, name |-> "Rifle", ammunition |-> 1],
                   [id |-> 10, name |-> "Pistol", ammunition |-> 4]>>,
     equips |-> <<[id |-> 3, name |-> "Multispectral Visor"]>>,
     ammunitions |-> <<[id |-> 1, name |-> "N"], [id |-> 2, name |-> "AP"]>>]

ExtrasCatalog == <<[id |-> 1, name |-> "AP"], [id |-> 2, name |-> "Shock"]>>

Order(t, n) == [kind |-> "dict", type |-> t, total |-> n]

Option(points, swc, skills, weapons, equip, orders) ==
    [kind |-> "dict", points |-> points, swc |-> swc, skills |-> skills,
     weapons |-> weapons, equip |-> equip, orders |-> orders, peripheral |-> NoneVal]

Profile(arm, type, skills, weapons, equip) ==
    [kind |-> "dict", skills |-> skills, weapons |-> weapons, equip |-> equip,
     type |-> type, arm |-> arm, w |-> 1, ava |-> 1, bs |-> 10, bts |-> 0, cc |-> 15,
     move |-> <<4, 2>>, ph |-> 10, s |-> 1, str |-> 1, wip |-> 12,
     peripheral |-> NoneVal, chars |-> NoneVal]

\* "vendor": every key present, every id in the catalogs; "sparse": the option
\* carries only points, swc and skills, the profile no equip, the unit only name
\* and profileGroups; "mismatched": a weapon id the catalog lacks; "badtype": a
\* type code outside 1..7; "unnamed": the first unit's name is empty;
\* "emptyunit": a last unit without profile groups.
DocVariants == {"vendor", "sparse", "mismatched", "badtype", "unnamed", "emptyunit"}

\* Option i of group g (groups numbered through the document).
OptionOf(variant, g, i) ==
    LET points == 10 * i + 100 * (g - 1)
        n == (g + i) % 3
    IN  IF variant = "sparse"
        THEN Option(points, "0", List(<<>>), NoneVal, NoneVal, NoneVal)
        ELSE IF n = 2
        THEN Option(points, "0", List(<<>>),
                    List(<<RefExtra(IF variant = "mismatched" THEN 99 ELSE 9, <<1>>)>>),
                    List(<<>>), List(<<Order("REGULAR", 1)>>))
        ELSE IF n = 0
        THEN Option(points, "-", List(<<RefId(6)>>), List(<<EmptyDict, RefId(10)>>),
                    List(<<RefId(3)>>),
                    List(<<Order("REGULAR", 2), Order("IRREGULAR", 1), Order("REGULAR", 1)>>))
        ELSE Option(points, "0.5", List(<<NoneVal, RefExtra(5, <<2>>)>>), List(<<>>),
                    List(<<>>), List(<<Order("IRREGULAR", 1), Order("TACTICAL", 1)>>))

\* Profile j of group g.
ProfileOf(variant, g, j) ==
    LET arm == j + 10 * (g - 1)
        n == (g + j) % 3
    IN  IF variant = "sparse"
        THEN Profile(arm, 2, List(<<RefId(5)>>), List(<<RefExtra(9, <<1>>)>>), NoneVal)
        ELSE IF n = 2
        THEN Profile(arm, IF variant = "badtype" THEN 9 ELSE 2, List(<<RefId(5)>>),
                     List(<<RefExtra(9, <<1>>)>>), List(<<RefId(3)>>))
        ELSE IF n = 0
        THEN Profile(arm, 4, List(<<RefId(5), RefId(6)>>), List(<<RefId(10)>>), List(<<>>))
        ELSE Profile(arm, 1, List(<<>>), List(<<RefExtra(9, <<2, 1>>)>>), List(<<RefId(3)>>))

\* The shape of a document: its groups in order, each with its number of options
\* and of profiles and whether it starts a new unit.
Slots == [o : 0..MaxOptions, p : 0..MaxProfiles, newUnit : BOOLEAN]
Shapes(n) == IF n = 0 THEN {<<>>} ELSE {s \in [1..n -> Slots] : s[1].newUnit}

UnitOf(shape, g) == Cardinality({k \in 1..g : shape[k].newUnit})
NumUnits(shape) == UnitOf(shape, Len(shape))

GroupOf(shape, variant, g) ==
    [kind |-> "dict",
     options |-> List([i \in 1..shape[g].o |-> OptionOf(variant, g, i)]),
     profiles |-> List([j \in 1..shape[g].p |-> ProfileOf(variant, g, j)])]

UnitNames == <<"Fusilier", "Maghariba Guard", "Scarface", "Carmen Johns", "Batard">>

UnitRecord(variant, u, groups) ==
    [kind |-> "dict",
     keys |-> IF variant = "sparse" THEN {"name", "profileGroups"}
              ELSE {"name", "profileGroups"} \cup UnitBookkeeping,
     name |-> IF variant = "unnamed" /\ u = 1 THEN ""
              ELSE UnitNames[((u - 1) % Len(UnitNames)) + 1],
     profileGroups |-> List(groups)]

Doc(shape, variant) ==
    LET unit(u) ==
            LET gs == {g \in 1..Len(shape) : UnitOf(shape, g) = u}
                lo == CHOOSE g \in gs : \A h \in gs : g <= h
            IN  UnitRecord(variant, u,
                    [k \in 1..Cardinality(gs) |-> GroupOf(shape, variant, lo + k - 1)])
        named == [u \in 1..NumUnits(shape) |-> unit(u)]
    IN  [kind |-> "dict",
         units |-> IF variant = "emptyunit"
                   THEN Append(named, UnitRecord(variant, NumUnits(shape) + 1, <<>>))
                   ELSE named,
         extras |-> ExtrasCatalog]

-----------------------------------------------------------------------------
(* load_army_data_to_dataframes: one action per stage.  An exception raised in a
   stage propagates: no function of the module catches anything. *)

Pending == [kind |-> "pending"]

Stage(stage, next, res) ==
    /\ pc = stage
    /\ IF res.err # "None"
       THEN /\ pc' = "raised"
            /\ err' = res.err
            /\ raisedAt' = stage
            /\ UNCHANGED army_df
       ELSE /\ pc' = next
            /\ army_df' = res.val
            /\ UNCHANGED <<err, raisedAt>>
    /\ UNCHANGED <<batchVars, callVars, army_data>>

ExplodeProfileGroups == Stage("explode_groups", "explode_options", GroupStage(army_data))

ExplodeOptions == Stage("explode_options", "explode_profiles", OptionStage(army_df))

ExplodeProfiles == Stage("explode_profiles", "convert_skill_ids", ProfileStage(army_df))

ConvertSkillIds ==
    \E hashseed \in HashSeeds :
        Stage("convert_skill_ids", "convert_weapon_ids",
              convert_skill_ids(army_df, metadata_df.skills, army_data.extras, hashseed))

ConvertWeaponIds ==
    \E hashseed \in HashSeeds :
        Stage("convert_weapon_ids", "convert_equipment_ids",
              convert_weapon_ids(army_df, metadata_df.weapons, army_data.extras, hashseed))

ConvertEquipmentIds ==
    \E hashseed \in HashSeeds :
        Stage("convert_equipment_ids", "convert_type_ids",
              convert_equipment_ids(army_df, metadata_df.equipment, army_data.extras,
                                    hashseed))

ConvertTypeIds == Stage("convert_type_ids", "add_order_columns", convert_type_ids(army_df))

AddOrderColumns == Stage("add_order_columns", "finalize", add_order_columns(army_df))

Finalize == Stage("finalize", "army_done", FinalStage(army_df))

LoadArmy ==
    \/ ExplodeProfileGroups
    \/ ExplodeOptions
    \/ ExplodeProfiles
    \/ ConvertSkillIds
    \/ ConvertWeaponIds
    \/ ConvertEquipmentIds
    \/ ConvertTypeIds
    \/ AddOrderColumns
    \/ Finalize

-----------------------------------------------------------------------------
(* load_all_downloaded_files *)

HasKey(jsons, key) == \E k \in 1..Len(jsons) : jsons[k].key = key
Get(jsons, key) == jsons[CHOOSE k \in 1..Len(jsons) : jsons[k].key = key].doc

\* lines 146-152
LoadFiles ==
    /\ pc = "load_files"
    /\ loaded_jsons' = files
    /\ pc' = "check_metadata"
    /\ UNCHANGED <<err, raisedAt, files, metadata_df, armies, returned, printed, army_key,
                   army_data, army_df, callVars>>

\* (variant: the check is left out)
MetadataCheckSkipped(jsons) == FALSE

\* `if 'metadata' not in loaded_jsons.keys()`
MetadataMissing(jsons) == ~HasKey(jsons, "metadata")

\* lines 153-155
AbortWithoutMetadata ==
    /\ pc = "check_metadata"
    /\ MetadataMissing(loaded_jsons)
    /\ printed' = Append(printed, "To load data, you must have the metadata file")
    /\ returned' = NoneVal
    /\ pc' = "returned"
    /\ UNCHANGED <<err, raisedAt, files, loaded_jsons, metadata_df, armies, army_key,
                   army_data, army_df, callVars>>

\* lines 156-158; loaded_jsons['metadata'] raises KeyError when the key is absent.
BuildMetadata ==
    /\ pc = "check_metadata"
    /\ ~MetadataMissing(loaded_jsons)
    /\ IF HasKey(loaded_jsons, "metadata")
       THEN /\ metadata_df' = load_metadata_to_dataframes(Get(loaded_jsons, "metadata"))
            /\ loaded_jsons' = SelectSeq(loaded_jsons, LAMBDA f : f.key # "metadata")
            /\ armies' = <<>>
            /\ pc' = "next_army"
            /\ UNCHANGED <<err, raisedAt>>
       ELSE /\ pc' = "raised"
            /\ err' = "KeyError"
            /\ raisedAt' = "check_metadata"
            /\ UNCHANGED <<metadata_df, loaded_jsons, armies>>
    /\ UNCHANGED <<files, returned, printed, army_key, army_data, army_df, callVars>>

\* lines 159-161: the next key of the dict, the call of load_army_data_to_dataframes
BeginArmy ==
    /\ pc = "next_army"
    /\ Len(armies) < Len(loaded_jsons)
    /\ army_key' = loaded_jsons[Len(armies) + 1].key
    /\ printed' = Append(printed, "Loading army: " \o army_key')
    /\ army_data' = loaded_jsons[Len(armies) + 1].doc
    /\ army_df' = <<>>
    /\ pc' = "explode_groups"
    /\ UNCHANGED <<err, raisedAt, files, loaded_jsons, metadata_df, armies, returned,
                   callVars>>

\* line 161: armies[army_key] = <the table returned>
StoreArmy ==
    /\ pc = "army_done"
    /\ armies' = Append(armies, [key |-> army_key, table |-> army_df])
    /\ pc' = "next_army"
    /\ UNCHANGED <<err, raisedAt, files, loaded_jsons, metadata_df, returned, printed,
                   army_key, army_data, army_df, callVars>>

\* line 167
ReturnArmies ==
    /\ pc = "next_army"
    /\ Len(armies) = Len(loaded_jsons)
    /\ returned' = [kind |-> "dict", items |-> armies]
    /\ pc' = "returned"
    /\ UNCHANGED <<err, raisedAt, files, loaded_jsons, metadata_df, armies, printed,
                   army_key, army_data, army_df, callVars>>

-----------------------------------------------------------------------------
(* A direct call of id_to_name *)

CallIdToName ==
    /\ pc = "id_to_name"
    /\ \E hashseed \in HashSeeds :
          LET r == id_to_name(id_list, lookup, extras_lookup, hashseed)
          IN  IF r.err # "None"
              THEN /\ pc' = "raised"
                   /\ err' = r.err
                   /\ raisedAt' = "id_to_name"
                   /\ UNCHANGED full_names
              ELSE /\ pc' = "returned"
                   /\ full_names' = r.val
                   /\ UNCHANGED <<err, raisedAt>>
    /\ UNCHANGED <<batchVars, army_data, army_df, id_list, lookup, extras_lookup>>

-----------------------------------------------------------------------------
(* Specifications *)

Idle ==
    /\ err = "None"
    /\ raisedAt = ""
    /\ files = <<>>
    /\ loaded_jsons = <<>>
    /\ armies = <<>>
    /\ returned = Pending
    /\ printed = <<>>
    /\ army_key = ""
    /\ id_list = NoneVal
    /\ lookup = <<>>
    /\ extras_lookup = <<>>
    /\ full_names = <<>>

\* The variants drawn for a document of n groups: the longest documents come as
\* the vendor publishes them and with an unnamed first unit.
VariantsAt(n) == IF n < MaxGroups THEN DocVariants ELSE {"vendor", "unnamed"}

\* load_army_data_to_dataframes on every bounded faction document.
InitArmy ==
    /\ Idle
    /\ pc = "explode_groups"
    /\ metadata_df = load_metadata_to_dataframes(MetadataDoc)
    /\ \E n \in 0..MaxGroups : \E s \in Shapes(n) : \E v \in VariantsAt(n) :
          army_data = Doc(s, v)
    /\ army_df = <<>>

SpecArmy == InitArmy /\ [][LoadArmy]_vars

\* load_all_downloaded_files on every bounded storage folder.
OneByOne == <<[o |-> 1, p |-> 1, newUnit |-> TRUE]>>
TwoGroups == <<[o |-> 2, p |-> 1, newUnit |-> TRUE], [o |-> 1, p |-> 2, newUnit |-> FALSE]>>

BatchDocs ==
    {Doc(OneByOne, "vendor"), Doc(TwoGroups, "vendor"), Doc(OneByOne, "mismatched"),
     Doc(OneByOne, "badtype")}

FactionKeys == <<"yu_jing", "haqqislam", "nomads", "aleph">>

StoredFiles ==
    {[key |-> "metadata", doc |-> MetadataDoc]} \cup
    {[key |-> FactionKeys[k], doc |-> d] :
        k \in 1..(IF MaxFactions < Len(FactionKeys) THEN MaxFactions ELSE Len(FactionKeys)),
        d \in BatchDocs}

Listings(n) ==
    {l \in [1..n -> StoredFiles] : \A a, b \in 1..n : a # b => l[a].key # l[b].key}

InitBatch ==
    /\ err = "None"
    /\ raisedAt = ""
    /\ \E n \in 0..(MaxFactions + 1) : files \in Listings(n)
    /\ loaded_jsons = <<>>
    /\ metadata_df = NoneVal
    /\ armies = <<>>
    /\ returned = Pending
    /\ printed = <<>>
    /\ army_key = ""
    /\ army_data = NoneVal
    /\ army_df = <<>>
    /\ id_list = NoneVal
    /\ lookup = <<>>
    /\ extras_lookup = <<>>
    /\ full_names = <<>>
    /\ pc = "load_files"

LoadAll ==
    \/ LoadFiles
    \/ AbortWithoutMetadata
    \/ BuildMetadata
    \/ BeginArmy
    \/ LoadArmy
    \/ StoreArmy
    \/ ReturnArmies

SpecBatch == InitBatch /\ [][LoadAll]_vars

\* id_to_name on every bounded reference list.
RefPool ==
    {NoneVal, EmptyDict, RefId(5), RefId(6), RefId(7), RefId(0), RefExtra(9, <<1>>),
     RefExtra(9, <<2, 1>>), RefExtra(9, <<>>), Ref({"extra"}, 0, <<1>>)}

Lookups ==
    {<<[id |-> 5, name |-> "Camouflage"], [id |-> 6, name |-> "Mimetism"],
       [id |-> 6, name |-> "Mimetism (-3)"], [id |-> 9, name |-> "Rifle"]>>,
     <<[id |-> 0, name |-> "Unused"], [id |-> 5, name |-> "Camouflage"],
       [id |-> 9, name |-> "Rifle"], [id |-> 9, name |-> "Rifle"]>>}

InitResolve ==
    /\ err = "None"
    /\ raisedAt = ""
    /\ files = <<>>
    /\ loaded_jsons = <<>>
    /\ metadata_df = NoneVal
    /\ armies = <<>>
    /\ returned = Pending
    /\ printed = <<>>
    /\ army_key = ""
    /\ army_data = NoneVal
    /\ army_df = <<>>
    /\ id_list \in {NoneVal} \cup {List(l) : l \in UNION {[1..n -> RefPool] : n \in 0..MaxRefs}}
    /\ lookup \in Lookups
    /\ extras_lookup = ExtrasCatalog
    /\ full_names = <<>>
    /\ pc = "id_to_name"

SpecResolve == InitResolve /\ [][CallIdToName]_vars

\* id_to_name on references that carry extras, against extras catalogs in and out
\* of id order and with two variants under one id.
ExtraPool ==
    {NoneVal, RefId(9), RefExtra(9, <<>>), RefExtra(9, <<1>>), RefExtra(9, <<2, 1>>),
     RefExtra(9, <<1, 7>>), RefExtra(5, <<2>>), RefExtra(9, <<1, 1>>)}

ExtrasCatalogs ==
    {ExtrasCatalog,
     <<[id |-> 2, name |-> "Shock"], [id |-> 1, name |-> "AP"],
       [id |-> 2, name |-> "Shock (+1)"]>>}

InitExtras ==
    /\ err = "None"
    /\ raisedAt = ""
    /\ files = <<>>
    /\ loaded_jsons = <<>>
    /\ metadata_df = NoneVal
    /\ armies = <<>>
    /\ returned = Pending
    /\ printed = <<>>
    /\ army_key = ""
    /\ army_data = NoneVal
    /\ army_df = <<>>
    /\ full_names = <<>>
    /\ pc = "id_to_name"
    /\ id_list \in {List(l) : l \in UNION {[1..n -> ExtraPool] : n \in 0..MaxRefs}}
    /\ lookup \in Lookups
    /\ extras_lookup \in ExtrasCatalogs

SpecExtras == InitExtras /\ [][CallIdToName]_vars

\* convert_type_ids on tables of every bounded type code.
TypeCodes == (0 - 1)..MaxTypeCode

InitType ==
    /\ Idle
    /\ pc = "convert_type_ids"
    /\ metadata_df = NoneVal
    /\ army_data = NoneVal
    /\ army_df \in UNION {[1..n -> [type : TypeCodes]] : n \in 1..MaxRows}

SpecType == InitType /\ [][ConvertTypeIds]_vars

\* add_order_columns on every bounded order list.
OrderTypeNames == Range(OrderTypes) \cup {"TACTICAL", "regular"}
OrderEntries == {Order(t, n) : t \in OrderTypeNames, n \in 1..MaxTotal}

InitOrders ==
    /\ Idle
    /\ pc = "add_order_columns"
    /\ metadata_df = NoneVal
    /\ army_data = NoneVal
    /\ army_df \in {<<[orders |-> List(l)]>> : l \in UNION {[1..n -> OrderEntries] : n \in 0..MaxOrders}}

SpecOrders == InitOrders /\ [][AddOrderColumns]_vars

-----------------------------------------------------------------------------
(* Properties *)

FlattenStages == {"explode_groups", "explode_options", "explode_profiles"}
ConvertStages ==
    <<"convert_skill_ids", "convert_weapon_ids", "convert_equipment_ids",
      "convert_type_ids", "add_order_columns", "finalize", "army_done">>

\* The table is the output of stage n of ConvertStages or of a later one: either
\* the pipeline stands there, or a later stage raised and left the table as it was.
Past(n) ==
    \E m \in n..Len(ConvertStages) :
        \/ pc = ConvertStages[m]
        \/ pc = "raised" /\ raisedAt = ConvertStages[m] /\ m < Len(ConvertStages)

GroupsOf(unit) == unit.profileGroups.items

\* Every (unit, group, option, profile) of a document with option and profile of
\* the same group of the same unit.
Pairs(data) ==
    UNION {UNION {{[name |-> data.units[u].name, group |-> GroupsOf(data.units[u])[g],
                    option |-> op[1], profile |-> op[2]] :
                       op \in Range(GroupsOf(data.units[u])[g].options.items) \X
                              Range(GroupsOf(data.units[u])[g].profiles.items)} :
                  g \in 1..Len(GroupsOf(data.units[u]))} :
           u \in 1..Len(data.units)}

\* The row was made from this pair: points identify the option and arm the
\* profile in the bounded documents; while the raw cells are still columns they
\* are the pair's group, option and profile themselves.
RowFrom(row, s) ==
    /\ row.name = s.name
    /\ row.points = s.option.points
    /\ row.arm = s.profile.arm
    /\ "profileGroupOptions" \in DOMAIN row =>
          /\ row.profileGroups = s.group
          /\ row.profileGroupOptions = s.option
          /\ row.profileGroupProfiles = s.profile

\* C1: in every table state after the profile-level explode, each row pairs an
\* option and a profile of the same profile group of the same unit.
C1_SameGroupPairs ==
    Past(1) => \A k \in 1..Len(army_df) : \E s \in Pairs(army_data) : RowFrom(army_df[k], s)

\* C1 witness: a finished table with rows of two units and of several pairs.
C1_Witness ==
    /\ pc = "army_done"
    /\ Len(army_df) >= 3
    /\ \E a, b \in 1..Len(army_df) : army_df[a].name # army_df[b].name

\* O_1*P_1 + ... + O_G*P_G over the groups of all units.
ExpectedRows(data) ==
    SumSeq([u \in 1..Len(data.units) |->
               SumSeq([g \in 1..Len(GroupsOf(data.units[u])) |->
                          Len(GroupsOf(data.units[u])[g].options.items) *
                          Len(GroupsOf(data.units[u])[g].profiles.items)])])

\* C2 (as claimed): for units that have profile groups, flattening never fails and
\* yields exactly the sum of O_i * P_i rows before the empty-name filter, groups
\* with no option or no profile included.
C2_RowCount ==
    (Len(army_data.units) > 0 /\ \A u \in 1..Len(army_data.units) :
                                      Len(GroupsOf(army_data.units[u])) > 0) =>
        /\ pc = "raised" => raisedAt \notin FlattenStages
        /\ (Past(1) /\ ~Past(Len(ConvertStages))) => Len(army_df) = ExpectedRows(army_data)

\* The k-th element of the sequence for which Keep holds.
KeptIndices(items, Keep(_)) == {i \in 1..Len(items) : Keep(items[i])}
KthKept(items, Keep(_), k) ==
    CHOOSE i \in KeptIndices(items, Keep) :
        Cardinality({j \in KeptIndices(items, Keep) : j <= i}) = k

\* The names a reference may resolve to: a base name of a matching catalog row
\* followed by the reference's suffixes.
NamesOf(ref, catalog, extras) ==
    {catalog[r].name \o
        Join([k \in 1..Len(ExtraNames(ref.extra, extras)) |->
                 "(" \o ExtraNames(ref.extra, extras)[k] \o ")"]) :
     r \in {r \in 1..Len(catalog) : catalog[r].id = ref.id}}

InOrder(items, Keep(_)) ==
    /\ Len(full_names) = Cardinality(KeptIndices(items, Keep))
    /\ \A k \in 1..Len(full_names) :
          full_names[k] \in NamesOf(items[KthKept(items, Keep, k)], lookup, extras_lookup)

Resolvable(ref) == \E r \in 1..Len(lookup) : lookup[r].id = ref.id

\* The reference has an id and the id is not falsy.
HasNonEmptyId(ref) == ref.kind = "dict" /\ "id" \in ref.keys /\ ref.id # 0

\* The list element itself is not falsy (not None, not an empty dict).
NonEmptyEntry(ref) == ref.kind = "dict" /\ ref.keys # {}

\* C3 (as claimed): id_to_name omits exactly the references whose id is falsy or
\* missing; the output is, in input order, the names of the references with a
\* non-empty id.
C3_OmitsEmptyIds ==
    (id_list.kind = "list" /\ pc # "id_to_name" /\
     \A i \in 1..Len(id_list.items) :
         HasNonEmptyId(id_list.items[i]) => Resolvable(id_list.items[i]))
    => pc = "returned" /\ InOrder(id_list.items, HasNonEmptyId)

\* C3 (amended): id_to_name omits exactly the list elements that are themselves
\* falsy; when it returns, the output is, in input order, the names of the other
\* elements, and it returns whenever each of those has an id the catalog holds.
C3_OmitsEmptyEntries ==
    (id_list.kind = "list" /\ pc # "id_to_name") =>
        /\ pc = "returned" => InOrder(id_list.items, NonEmptyEntry)
        /\ (\A i \in 1..Len(id_list.items) :
               NonEmptyEntry(id_list.items[i]) =>
                   "id" \in id_list.items[i].keys /\ Resolvable(id_list.items[i]))
           => pc = "returned"

\* C3 witness: three entries, the middle one empty, two names out in input order.
C3_Witness ==
    /\ pc = "returned"
    /\ id_list.kind = "list"
    /\ Len(id_list.items) = 3
    /\ ~NonEmptyEntry(id_list.items[2])
    /\ full_names = <<"Rifle(AP)", "Camouflage">>

\* C4 (as claimed): a reference whose id matches no catalog entry fails with
\* IdResolutionFailure, never with an out-of-range lookup error.
C4_NamedResolutionError ==
    (id_list.kind = "list" /\ pc # "id_to_name" /\
     (\A i \in 1..Len(id_list.items) :
         NonEmptyEntry(id_list.items[i]) => "id" \in id_list.items[i].keys) /\
     (\E i \in 1..Len(id_list.items) :
         NonEmptyEntry(id_list.items[i]) /\ ~Resolvable(id_list.items[i])))
    => pc = "raised" /\ err = "IdResolutionFailure"

\* The end-to-end scenario of the specification: one unit, one group, the option
\* {points: 10, swc: 0, skills: []} and the profile {skills: [{id: 5}],
\* weapons: [{id: 9, extra: [1]}], type: 2, ...}.
Scenario == Doc(OneByOne, "sparse")

\* C5 (as claimed): the scenario document loads without failure and yields exactly
\* one row with type "MI", skills ["Camouflage"], weapons ["Rifle(AP)"], swc 0.0
\* and points 10.
C5_Scenario ==
    army_data = Scenario =>
        /\ pc # "raised"
        /\ pc = "army_done" =>
              /\ Len(army_df) = 1
              /\ army_df[1].type = "MI"
              /\ army_df[1].skills = <<"Camouflage">>
              /\ army_df[1].weapons = <<"Rifle(AP)">>
              /\ army_df[1].swc = "0.0"
              /\ army_df[1].points = 10

ArmyStages == FlattenStages \cup Range(ConvertStages)

MissingMessage == "To load data, you must have the metadata file"

\* C6: without a document keyed 'metadata' the batch is aborted: no faction is
\* handed to load_army_data_to_dataframes, no table is stored or returned, the
\* caller gets None and the message is printed; and whenever a faction is being
\* processed or has been stored, the four catalogs have been built from the
\* metadata document.
C6_MetadataFirst ==
    /\ ~HasKey(files, "metadata") =>
          /\ pc \in {"load_files", "check_metadata", "returned"}
          /\ army_data = NoneVal
          /\ army_df = <<>>
          /\ armies = <<>>
          /\ pc = "returned" => returned = NoneVal /\ printed = <<MissingMessage>>
    /\ (pc \in ArmyStages \/ Len(armies) > 0 \/ army_data # NoneVal) =>
          /\ HasKey(files, "metadata")
          /\ metadata_df = load_metadata_to_dataframes(Get(files, "metadata"))

\* C6 witness: a folder with faction documents and no metadata, after the return.
C6_Witness ==
    /\ pc = "returned"
    /\ ~HasKey(files, "metadata")
    /\ Len(files) >= 2
    /\ returned = NoneVal

\* Documents that load_army_data_to_dataframes turns into a table on their own.
WellFormedDocs == {Doc(OneByOne, "vendor"), Doc(TwoGroups, "vendor")}

\* C7 (as claimed): when the batch has ended, every faction whose own document is
\* well-formed has its table in the result, whatever happened to the others.
C7_FactionIsolation ==
    (pc \in {"returned", "raised"} /\ HasKey(files, "metadata")) =>
        \A f \in Range(files) :
            (f.key # "metadata" /\ f.doc \in WellFormedDocs) =>
                /\ returned.kind = "dict"
                /\ \E a \in Range(returned.items) : a.key = f.key

\* The documented labels of the type codes.
DocumentedLabel(code) ==
    CASE code = 1 -> "LI" [] code = 2 -> "MI" [] code = 3 -> "HI" [] code = 4 -> "TAG"
      [] code = 5 -> "REM" [] code = 6 -> "SK" [] code = 7 -> "WB"

\* C8 (as claimed): codes 1..7 map to LI, MI, HI, TAG, REM, SK, WB and any other
\* integer code raises UnknownCategoryCodeFailure.
C8_TypeMapping ==
    /\ pc = "add_order_columns" =>
          \A k \in 1..Len(army_df) :
              /\ army_df[k].type_id \in 1..7
              /\ army_df[k].type = DocumentedLabel(army_df[k].type_id)
    /\ pc = "raised" =>
          /\ \E k \in 1..Len(army_df) : army_df[k].type \notin 1..7
          /\ err = "UnknownCategoryCodeFailure"

\* The pair a row was made from.
SourceOf(row) == CHOOSE s \in Pairs(army_data) : RowFrom(row, s)

\* Profile's names followed by option's names, both resolved under one hash seed.
ProfileThenOption(names, base, option, catalog) ==
    \E hashseed \in HashSeeds :
        names = id_to_name(base, catalog, army_data.extras, hashseed).val \o
                id_to_name(option, catalog, army_data.extras, hashseed).val

\* C9: on every row the skills, weapons and equipment columns are the resolved
\* names of the owning profile's list followed by those of the selected option's
\* list, nothing dropped, deduplicated or reordered.
C9_ProfileThenOption ==
    \A k \in 1..Len(army_df) :
        LET row == army_df[k]
            s == SourceOf(row)
        IN  /\ Past(2) => ProfileThenOption(row.skills, s.profile.skills, s.option.skills,
                                            metadata_df.skills)
            /\ Past(3) => ProfileThenOption(row.weapons, s.profile.weapons,
                                            s.option.weapons, metadata_df.weapons)
            /\ Past(4) => ProfileThenOption(row.equipment, s.profile.equip, s.option.equip,
                                            metadata_df.equipment)

\* C9 witness: a finished row whose skills repeat a name (profile 5, 6 and option
\* 6) and whose weapons and equipment come from both lists.
C9_Witness ==
    /\ pc = "army_done"
    /\ \E k \in 1..Len(army_df) :
          /\ Len(army_df[k].skills) = 3
          /\ army_df[k].skills[1] = "Camouflage"
          /\ army_df[k].skills[2] = army_df[k].skills[3]
          /\ army_df[k].weapons = <<"Pistol", "Pistol">>

RECURSIVE TotalOver(_, _)
TotalOver(items, S) ==
    IF S = {} THEN 0
    ELSE LET k == CHOOSE k \in S : TRUE IN items[k].total + TotalOver(items, S \ {k})

OrderExample == <<Order("REGULAR", 2), Order("IRREGULAR", 1), Order("REGULAR", 1)>>

\* C10: each of the four order columns is the sum of 'total' over exactly the
\* entries whose 'type' is that column's category string; other entries count
\* nowhere and raise nothing; the example list gives 3, 1, 0, 0.
C10_OrderSums ==
    (pc # "add_order_columns" /\ Len(army_df) = 1 /\ "orders" \in DOMAIN army_df[1]
     /\ army_df[1].orders.kind = "list") =>
        LET row == army_df[1]
            items == row.orders.items
        IN  /\ pc # "raised"
            /\ \A j \in 1..Len(OrderTypes) :
                  row[OrderColumns[j]] =
                      TotalOver(items, {k \in 1..Len(items) : items[k].type = OrderTypes[j]})
            /\ items = OrderExample =>
                  /\ row["Regular Orders"] = 3
                  /\ row["Irregular Orders"] = 1
                  /\ row["Impetuous Orders"] = 0
                  /\ row["Lieutenant Orders"] = 0

\* C10 witness: the example list has been aggregated.
C10_Witness ==
    /\ pc = "finalize"
    /\ Len(army_df) = 1
    /\ army_df[1].orders.items = OrderExample
    /\ army_df[1]["Regular Orders"] = 3

\* The base names a reference may resolve to: the names of the matching rows.
BaseNames(ref, catalog) == {catalog[r].name : r \in {r \in 1..Len(catalog) : catalog[r].id = ref.id}}

\* The suffixes of the catalog rows at the given positions, joined.
SuffixesAt(extras, rows) == Join([k \in 1..Len(rows) |-> "(" \o extras[rows[k]].name \o ")"])

\* One catalog row per extra id: as many rows as the extra list has ids, taken in
\* catalog order, their ids being the ids of the extra list.
OneRowPerExtraId(extra, extras) ==
    {rows \in [1..Len(extra) -> 1..Len(extras)] :
        /\ \A a, b \in 1..Len(extra) : a < b => rows[a] < rows[b]
        /\ \E p \in Permutations(1..Len(extra)) :
               \A k \in 1..Len(extra) : extras[rows[k]].id = extra[p[k]]}

\* Every catalog row whose id is among the extra ids, in catalog order.
RECURSIVE RowsListed(_, _, _)
RowsListed(extras, wanted, from) ==
    IF from > Len(extras) THEN <<>>
    ELSE (IF extras[from].id \in wanted THEN <<from>> ELSE <<>>) \o
         RowsListed(extras, wanted, from + 1)

HasExtras(ref) == "extra" \in ref.keys /\ Len(ref.extra) > 0

\* C11 (as claimed): a resolved reference with a non-empty extra list yields its
\* base name followed by one "(name)" suffix per extra id, in catalog order; a
\* reference with an empty or absent extra list yields exactly its base name.
C11_OneSuffixPerExtraId ==
    (pc = "returned" /\ id_list.kind = "list") =>
        \A k \in 1..Len(full_names) :
            LET ref == id_list.items[KthKept(id_list.items, NonEmptyEntry, k)]
            IN  IF HasExtras(ref)
                THEN \E base \in BaseNames(ref, lookup) :
                     \E rows \in OneRowPerExtraId(ref.extra, extras_lookup) :
                         full_names[k] = base \o SuffixesAt(extras_lookup, rows)
                ELSE full_names[k] \in BaseNames(ref, lookup)

\* C11 (amended): a resolved reference with a non-empty extra list yields its
\* base name followed by one "(name)" suffix per extras catalog row whose id is
\* among the reference's extra ids, the rows in catalog order; a reference with
\* an empty or absent extra list yields exactly its base name.
C11_SuffixPerCatalogRow ==
    (pc = "returned" /\ id_list.kind = "list") =>
        \A k \in 1..Len(full_names) :
            LET ref == id_list.items[KthKept(id_list.items, NonEmptyEntry, k)]
            IN  IF HasExtras(ref)
                THEN \E base \in BaseNames(ref, lookup) :
                         full_names[k] =
                             base \o SuffixesAt(extras_lookup,
                                        RowsListed(extras_lookup, Range(ref.extra), 1))
                ELSE full_names[k] \in BaseNames(ref, lookup)

\* C11 witness: extras listed as 2, 1 come out in catalog order, and a reference
\* with an empty extra list comes out as its base name.
C11_Witness ==
    /\ pc = "returned"
    /\ id_list = List(<<RefExtra(9, <<2, 1>>), RefExtra(9, <<>>)>>)
    /\ extras_lookup = ExtrasCatalog
    /\ full_names = <<"Rifle(AP)(Shock)", "Rifle">>

====
